---- MODULE Spec2Model ----
(***************************************************************************)
(* Model of undervoltage_protection.py: class VoltageMonitor.              *)
(*                                                                         *)
(* Python floats are modelled as exact fixed-point integers:               *)
(*   - a load percentage p is held as p * PctScale for the CPU (whose      *)
(*     value is a quotient of tick deltas) and as a plain integer for the  *)
(*     GPU (every probe yields an integer percentage);                     *)
(*   - a voltage v is held as v * VScale.                                  *)
(* PctScale and VScale are chosen so that every quotient the code takes    *)
(* (idle_delta / total_delta, the mean over the channels) is exact.        *)
(* Floating-point rounding is therefore not part of the model.             *)
(***************************************************************************)
EXTENDS Integers, Sequences, FiniteSets, TLC

\* ------------------------------------------------------------ bounds
\* monitoring cycles explored before the model stops the loop
MaxCycles == 6
\* largest configured undervoltage_limit (the smallest is 0)
MaxLimit == 3
\* largest number of in*_label files found in one cycle
MaxChannels == 2
\* largest value of one /proc/stat tick counter
MaxTick == 2

\* ------------------------------------------------------------ arithmetic
RECURSIVE Gcd(_, _)
Gcd(a, b) == IF b = 0 THEN a ELSE Gcd(b, a % b)

RECURSIVE LcmUpTo(_)
LcmUpTo(n) == IF n <= 1 THEN 1 ELSE (LcmUpTo(n - 1) * n) \div Gcd(LcmUpTo(n - 1), n)

RECURSIVE SeqSum(_)
SeqSum(s) == IF s = <<>> THEN 0 ELSE Head(s) + SeqSum(Tail(s))

\* a / b for b # 0 dividing a, either sign
ExactDiv(a, b) ==
    IF b > 0
    THEN (IF a >= 0 THEN a \div b ELSE -((-a) \div b))
    ELSE (IF a >= 0 THEN -(a \div (-b)) ELSE (-a) \div (-b))

Min(a, b) == IF a <= b THEN a ELSE b
Max(a, b) == IF a >= b THEN a ELSE b

\* Python's None and a present value
None == <<>>
Some(x) == <<x>>

\* the sum of the tick counters is at most 2 * MaxTick, so is every total_delta
PctScale == LcmUpTo(2 * MaxTick)
\* the mean divides by the number of channels read
ChanScale == LcmUpTo(MaxChannels)
\* model units per volt: the coefficients have five decimals
VScale == 100000 * ChanScale * PctScale

\* ------------------------------------------------------------ get_cpu_usage
\* One read of /proc/stat: the open/readline may raise (read_ok = FALSE), a
\* token may not be an integer (ints_ok = FALSE), and fields are the integers
\* of line.split()[1:].
StatRead(ok, ints, f) == [read_ok |-> ok, ints_ok |-> ints, fields |-> f]

StatFailures ==
    { StatRead(FALSE, FALSE, <<>>), StatRead(TRUE, FALSE, <<>>),
      StatRead(TRUE, TRUE, <<>>), StatRead(TRUE, TRUE, <<1, 0, 0>>) }

StatLines(maxTick) ==
    { StatRead(TRUE, TRUE, <<u, 0, 0, i>>) : u \in 0..maxTick, i \in 0..maxTick }

\* lines 52-56 complete without raising
ParseOk(stat) == stat.read_ok /\ stat.ints_ok /\ Len(stat.fields) >= 4

\* lines 73-74, for total_delta # 0, in percent * PctScale
CpuPercent(idle_delta, total_delta) ==
    Max(0, Min(100 * PctScale,
               100 * PctScale - ExactDiv(100 * PctScale * idle_delta, total_delta)))

NoSnapshot_Falsy(pidle) == pidle = None \/ pidle = Some(0)

\* line 59: self._prev_idle is None
NoSnapshot(pidle) == pidle = None

OnStatFailure_Reset(pidle, ptotal) ==
    [usage |-> 0, prev_idle |-> None, prev_total |-> None]

\* lines 75-78: the except branch
OnStatFailure(pidle, ptotal) ==
    [usage |-> 0, prev_idle |-> pidle, prev_total |-> ptotal]

\* the value returned and the snapshot left behind
GetCpuUsage(pidle, ptotal, stat) ==
    IF ~ParseOk(stat)
    THEN OnStatFailure(pidle, ptotal)
    ELSE LET idle_time == stat.fields[4]
             total_time == SeqSum(stat.fields)
         IN IF NoSnapshot(pidle)
            THEN [usage |-> 0, prev_idle |-> Some(idle_time),
                  prev_total |-> Some(total_time)]
            ELSE LET idle_delta == idle_time - pidle[1]
                     total_delta == total_time - ptotal[1]
                 IN [usage |-> IF total_delta = 0 THEN 0
                               ELSE CpuPercent(idle_delta, total_delta),
                     prev_idle |-> Some(idle_time),
                     prev_total |-> Some(total_time)]

\* ------------------------------------------------------------ get_gpu_usage
\* nvidia-smi: subprocess.run raises (exc), or returns rc and stdout; isdigit is
\* stdout.strip().isdigit() and val the number it then holds.
NvRun(exc, rc, isdigit, val) == [exc |-> exc, rc |-> rc, isdigit |-> isdigit, val |-> val]
\* tegrastats: Popen/communicate raises (exc), or some line matches GR3D_FREQ <n>%
TegRun(exc, match, val) == [exc |-> exc, match |-> match, val |-> val]
\* one candidate sysfs load file
LoadFile(exists, readable, hasint, val, slash) ==
    [exists |-> exists, readable |-> readable, hasint |-> hasint, val |-> val,
     slash |-> slash]
\* jtop --json: run/json.loads/float raises (exc), or rc and data['gpu']['val']
JtopRun(exc, rc, haskey, val) == [exc |-> exc, rc |-> rc, haskey |-> haskey, val |-> val]

\* number of entries of gpu_load_paths
NumLoadPaths == 3

\* Each probe yields None (fall through) or Some(percentage).
ProbeNvidiaSmi(o) ==
    IF ~o.exc /\ o.rc = 0 /\ o.isdigit THEN Some(o.val) ELSE None

ProbeTegrastats(o) ==
    IF ~o.exc /\ o.match THEN Some(o.val) ELSE None

\* line 136-137: gpu_usage / 100.0 * 100.0 leaves the value as it is
SysfsNormalize(f) ==
    IF f.slash /\ f.val > 100 THEN ExactDiv(f.val * 100, 100) ELSE f.val

RECURSIVE ProbeSysfs(_)
ProbeSysfs(paths) ==
    IF paths = <<>> THEN None
    ELSE LET f == Head(paths)
         IN IF ~f.exists THEN ProbeSysfs(Tail(paths))
            ELSE IF ~f.readable THEN None
            ELSE IF ~f.hasint THEN ProbeSysfs(Tail(paths))
            ELSE Some(Min(100, SysfsNormalize(f)))

ProbeJtop(o) ==
    IF ~o.exc /\ o.rc = 0 /\ o.haskey THEN Some(o.val) ELSE None

ProbeResult(env, name) ==
    CASE name = "nvidia-smi" -> ProbeNvidiaSmi(env.nv)
      [] name = "tegrastats" -> ProbeTegrastats(env.teg)
      [] name = "sysfs" -> ProbeSysfs(env.sysfs)
      [] name = "jtop" -> ProbeJtop(env.jtop)

ProbeOrder_TegrastatsFirst == <<"tegrastats", "nvidia-smi", "sysfs", "jtop">>

\* the try blocks in the order of the code: Method 1 to Method 4
ProbeOrder == <<"nvidia-smi", "tegrastats", "sysfs", "jtop">>

\* the value returned and the probes run, in the order they were run; a probe
\* that yields a value returns from the function, line 162 is reached when
\* none did
RECURSIVE GpuChain(_, _, _)
GpuChain(env, todo, tried) ==
    IF todo = <<>> THEN [usage |-> 0, tried |-> tried]
    ELSE IF ProbeResult(env, Head(todo)) # None
         THEN [usage |-> ProbeResult(env, Head(todo))[1],
               tried |-> Append(tried, Head(todo))]
         ELSE GpuChain(env, Tail(todo), Append(tried, Head(todo)))

GetGpuUsage(env) == GpuChain(env, ProbeOrder, <<>>)

\* ------------------------------------------------------------ correct_voltage
\* coefficients of line 167, in 1e-5 V
KCpu == 395
KGpu == 1478
Offset == 56000

\* the GPU coefficient of the comment of line 166
CorrectVoltage_CommentCoefficient(raw_voltage, cpu, gpu) ==
    raw_voltage + KCpu * cpu * ChanScale + 1278 * gpu * ChanScale * PctScale
        + Offset * ChanScale * PctScale

CorrectVoltage_NoOffset(raw_voltage, cpu, gpu) ==
    raw_voltage + KCpu * cpu * ChanScale + KGpu * gpu * ChanScale * PctScale

\* raw in volts * VScale, cpu in percent * PctScale, gpu in percent
CorrectVoltage(raw_voltage, cpu, gpu) ==
    raw_voltage + KCpu * cpu * ChanScale + KGpu * gpu * ChanScale * PctScale
        + Offset * ChanScale * PctScale

\* ------------------------------------------------------------ read_mean_voltage
\* One in*_label file and its in*_input file in one cycle.
Channel(label_ok, label, input_ok, mv) ==
    [label_ok |-> label_ok, label |-> label, input_ok |-> input_ok, mv |-> mv]

\* 'VDD' in label
HasRailMarker(label) == label \in {"VDD_IN", "VDD_CPU_GPU_CV"}

ChannelRead_AnyLabel(c) == c.label_ok /\ c.input_ok

\* the channel contributes a voltage (lines 175-191)
ChannelRead(c) == c.label_ok /\ HasRailMarker(c.label) /\ c.input_ok

RECURSIVE ReadVoltages(_)
ReadVoltages(chs) ==
    IF chs = <<>> THEN <<>>
    ELSE IF ChannelRead(Head(chs))
         THEN <<Head(chs).mv>> \o ReadVoltages(Tail(chs))
         ELSE ReadVoltages(Tail(chs))

\* statistics.mean of the millivolt values / 1000, in volts * VScale
MeanVoltage(mvs) ==
    (SeqSum(mvs) * (ChanScale \div Len(mvs))) * 100 * PctScale

\* ------------------------------------------------------------ exceptions
GuardedSites_InputUnguarded ==
    {"label", "cpu", "nvidia-smi", "tegrastats", "sysfs", "jtop"}

\* the try blocks that end in "except Exception": lines 175-179 (label),
\* 184-191 (input), 51-78 (cpu), 83-94, 97-118, 121-143, 146-158 (GPU probes)
GuardedSites == {"label", "input", "cpu", "nvidia-smi", "tegrastats", "sysfs", "jtop"}

\* open() of line 127 raises on the first load file that exists
RECURSIVE SysfsRaises(_)
SysfsRaises(paths) ==
    IF paths = <<>> THEN FALSE
    ELSE LET f == Head(paths)
         IN IF ~f.exists THEN SysfsRaises(Tail(paths))
            ELSE IF ~f.readable THEN TRUE
            ELSE IF ~f.hasint THEN SysfsRaises(Tail(paths))
            ELSE FALSE

\* the probe's try block is left by an exception
ProbeRaises(env, name) ==
    CASE name = "nvidia-smi" -> env.nv.exc
      [] name = "tegrastats" -> env.teg.exc
      [] name = "sysfs" -> SysfsRaises(env.sysfs)
      [] name = "jtop" -> env.jtop.exc

\* an exception leaves the channel loop of read_mean_voltage
ChannelsRaise(chs) ==
    \E i \in 1..Len(chs) :
        \/ ~chs[i].label_ok /\ "label" \notin GuardedSites
        \/ /\ chs[i].label_ok /\ HasRailMarker(chs[i].label) /\ ~chs[i].input_ok
           /\ "input" \notin GuardedSites

\* an exception leaves get_cpu_usage
CpuRaises(stat) == ~ParseOk(stat) /\ "cpu" \notin GuardedSites

\* an exception leaves get_gpu_usage
GpuRaises(env) ==
    LET tried == GetGpuUsage(env).tried
    IN \E i \in 1..Len(tried) :
           ProbeRaises(env, tried[i]) /\ tried[i] \notin GuardedSites

\* ------------------------------------------------------------ console output
\* lines 76-77: what get_cpu_usage prints
CpuPrints(dbg, stat) ==
    IF dbg /\ ~ParseOk(stat) THEN <<"print: CPU usage error">> ELSE <<>>

\* what the probes run print: lines 89-90, 113-114, 138-139, 153-154 for a
\* value, lines 93-94, 117-118, 142-143, 157-158 for an exception
RECURSIVE ProbePrints(_, _)
ProbePrints(env, tried) ==
    IF tried = <<>> THEN <<>>
    ELSE (IF ProbeResult(env, Head(tried)) # None THEN <<"print: GPU usage">>
          ELSE IF ProbeRaises(env, Head(tried)) THEN <<"print: GPU probe failed">>
          ELSE <<>>) \o ProbePrints(env, Tail(tried))

\* what get_gpu_usage prints, with the fallback of lines 160-161
GpuPrints(dbg, env) ==
    LET tried == GetGpuUsage(env).tried
    IN IF ~dbg THEN <<>>
       ELSE ProbePrints(env, tried)
            \o (IF ProbeResult(env, tried[Len(tried)]) = None
                THEN <<"print: GPU fallback">> ELSE <<>>)

\* ------------------------------------------------------------ state
VARIABLES
    \* fields of VoltageMonitor
    debug, threshold, undervoltage_limit, hwmon_paths, undervoltage_cnt, prev_idle,
    prev_total,
    \* position in monitor() and the values of the cycle in progress
    pc, voltages, raw_v, corrected_v, cpu_usage, gpu_usage, gpu_tried,
    \* records written in the cycle in progress, shutdown_system() calls,
    \* executions of /sbin/shutdown
    log, shutdown_calls, os_shutdowns,
    \* one entry per completed cycle: "below", "ok" (valid readings) or "absent"
    history,
    \* idle and total of the last read of /proc/stat that parsed, None before it
    last_good,
    \* the inputs of the last call, kept by the specifications of single functions
    chan_in, stat_in, probe_in,
    \* whether the user's keyboard interrupt has arrived
    sigint

vars == <<debug, threshold, undervoltage_limit, hwmon_paths, undervoltage_cnt,
          prev_idle, prev_total, pc, voltages, raw_v, corrected_v, cpu_usage, gpu_usage, gpu_tried,
          log, shutdown_calls, os_shutdowns, history, last_good,
          chan_in, stat_in, probe_in, sigint>>

config == <<debug, threshold, undervoltage_limit, hwmon_paths>>
snapshot == <<prev_idle, prev_total>>
effects == <<log, shutdown_calls, os_shutdowns>>
inputs == <<chan_in, stat_in, probe_in, sigint>>

\* default threshold of __init__, in volts
ThresholdVolts == 14

\* ------------------------------------------------------------ inputs of a cycle
\* millivolt values that put the corrected voltage of an idle board just
\* below (13.9 V), at (14.0 V, their mean) and above (14.1 V) the threshold
MonMillivolts == {13340, 13540}

ChannelOutcomes(mvs) ==
    { Channel(FALSE, "", FALSE, 0), Channel(TRUE, "VDD_IN", FALSE, 0) }
    \cup { Channel(TRUE, "NC", TRUE, m) : m \in mvs }
    \cup { Channel(TRUE, "VDD_IN", TRUE, m) : m \in mvs }

ChannelInputs(mvs) ==
    UNION { [1..n -> ChannelOutcomes(mvs)] : n \in 0..MaxChannels }

\* the cycles of monitor() see no, one or two label files
MonChannelInputs ==
    {<<>>}
    \cup { <<a>> : a \in ChannelOutcomes(MonMillivolts) }
    \cup { <<a, b>> : a \in ChannelOutcomes(MonMillivolts),
                      b \in ChannelOutcomes(MonMillivolts) }

MonStatInputs ==
    { StatRead(FALSE, FALSE, <<>>), StatRead(TRUE, TRUE, <<0, 0, 0, 0>>),
      StatRead(TRUE, TRUE, <<1, 0, 0, 1>>) }

NvFails == NvRun(TRUE, 0, FALSE, 0)
TegFails == TegRun(TRUE, FALSE, 0)
NoLoadFile == LoadFile(FALSE, FALSE, FALSE, 0, FALSE)
SysfsFails == [k \in 1..NumLoadPaths |-> NoLoadFile]
JtopFails == JtopRun(TRUE, 0, FALSE, 0)

ProbeEnv(nv, teg, sysfs, jtop) == [nv |-> nv, teg |-> teg, sysfs |-> sysfs, jtop |-> jtop]

MonProbeInputs ==
    { ProbeEnv(NvFails, TegFails, SysfsFails, JtopFails),
      ProbeEnv(NvRun(FALSE, 0, TRUE, 20), TegFails, SysfsFails, JtopFails),
      ProbeEnv(NvFails, TegRun(FALSE, TRUE, 150), SysfsFails, JtopFails) }

\* ------------------------------------------------------------ monitor()
\* the fields of lines 21-35 at position p, with the threshold t, the
\* hwmon directories paths, and the channel reads and the GPU probes'
\* environment of the first call drawn from chans and envs
InitWith(p, t, paths, chans, envs) ==
    /\ debug \in BOOLEAN
    /\ threshold = t
    /\ undervoltage_limit \in 0..MaxLimit
    /\ hwmon_paths = paths
    /\ undervoltage_cnt = 0
    /\ prev_idle = None
    /\ prev_total = None
    /\ pc = p
    /\ voltages = <<>>
    /\ raw_v = None
    /\ corrected_v = None
    /\ cpu_usage = 0
    /\ gpu_usage = 0
    /\ gpu_tried = <<>>
    /\ log = <<>>
    /\ shutdown_calls = 0
    /\ os_shutdowns = 0
    /\ history = <<>>
    /\ last_good = None
    /\ chan_in \in chans
    /\ stat_in = StatRead(FALSE, FALSE, <<>>)
    /\ probe_in \in envs
    /\ sigint = FALSE

\* the monitor as constructed with the default threshold on a board with one
\* hwmon directory
InitAt(p, envs) == InitWith(p, ThresholdVolts * VScale, <<"hwmon0">>, {<<>>}, envs)

Init == InitAt("read", {ProbeEnv(NvFails, TegFails, SysfsFails, JtopFails)})

\* lines 171-194: the channel loop of read_mean_voltage and its early return
SampleChannels_ZeroOnEmpty(chs) ==
    /\ voltages' = ReadVoltages(chs)
    /\ IF voltages' = <<>>
       THEN /\ raw_v' = Some(0)
            /\ corrected_v' = Some(0)
            /\ cpu_usage' = 0
            /\ gpu_usage' = 0
            /\ pc' = "decide"
       ELSE /\ raw_v' = Some(MeanVoltage(voltages'))
            /\ pc' = "cpu"
            /\ UNCHANGED <<corrected_v, cpu_usage, gpu_usage>>

SampleChannels_LoadsAnyway(chs) ==
    /\ voltages' = ReadVoltages(chs)
    /\ raw_v' = IF voltages' = <<>> THEN None ELSE Some(MeanVoltage(voltages'))
    /\ pc' = "cpu"
    /\ UNCHANGED <<corrected_v, cpu_usage, gpu_usage>>

SampleChannels(chs) ==
    /\ voltages' = ReadVoltages(chs)
    /\ IF voltages' = <<>>
       THEN /\ raw_v' = None
            /\ corrected_v' = None
            /\ cpu_usage' = 0
            /\ gpu_usage' = 0
            /\ pc' = "decide"
       ELSE /\ raw_v' = Some(MeanVoltage(voltages'))
            /\ pc' = "cpu"
            /\ UNCHANGED <<corrected_v, cpu_usage, gpu_usage>>

\* lines 272-277: an exception that leaves monitor() ends the program, after
\* the records lg
Fatal(lg) ==
    /\ pc' = "exit(1)"
    /\ log' = Append(lg, IF debug THEN "print: failed to start" ELSE "error: failed to start")

\* line 199: the call of get_cpu_usage, after the records lg
CpuCall(lg, stat) ==
    LET r == GetCpuUsage(prev_idle, prev_total, stat)
    IN /\ cpu_usage' = r.usage
       /\ log' = lg \o CpuPrints(debug, stat)
       /\ prev_idle' = r.prev_idle
       /\ prev_total' = r.prev_total
       /\ last_good' = IF ParseOk(stat)
                       THEN <<stat.fields[4], SeqSum(stat.fields)>>
                       ELSE last_good

\* line 200: the call of get_gpu_usage, after the records lg
GpuCall(lg, env) ==
    LET r == GetGpuUsage(env)
    IN /\ gpu_usage' = r.usage
       /\ log' = lg \o GpuPrints(debug, env)
       /\ gpu_tried' = r.tried

\* line 217 up to the return of line 194 or the mean of line 196, on the
\* channel reads of chans
ReadChannelsFrom(chans) ==
    /\ pc = "read"
    /\ Len(history) < MaxCycles
    /\ \E chs \in chans :
           IF ChannelsRaise(chs)
           THEN /\ Fatal(<<>>)
                /\ UNCHANGED <<voltages, raw_v, corrected_v, cpu_usage, gpu_usage>>
           ELSE /\ SampleChannels(chs)
                /\ log' = <<>>
    /\ gpu_tried' = <<>>
    /\ UNCHANGED <<config, undervoltage_cnt, snapshot, shutdown_calls, os_shutdowns,
                   history, last_good, inputs>>

ReadChannels == ReadChannelsFrom(MonChannelInputs)

LoadCpuFrom(stats) ==
    /\ pc = "cpu"
    /\ \E stat \in stats :
           IF CpuRaises(stat)
           THEN /\ Fatal(log)
                /\ UNCHANGED <<cpu_usage, snapshot, last_good>>
           ELSE /\ CpuCall(log, stat)
                /\ pc' = "gpu"
    /\ UNCHANGED <<config, undervoltage_cnt, voltages, raw_v, corrected_v, gpu_usage,
                   gpu_tried, shutdown_calls, os_shutdowns, history, inputs>>

LoadCpu == LoadCpuFrom(MonStatInputs)

\* lines 200-205
LoadGpuAndCorrectFrom(envs) ==
    /\ pc = "gpu"
    /\ \E env \in envs :
           IF GpuRaises(env)
           THEN /\ Fatal(log)
                /\ UNCHANGED <<gpu_usage, gpu_tried, corrected_v>>
           ELSE /\ GpuCall(log, env)
                /\ corrected_v' = Some(CorrectVoltage(raw_v[1], cpu_usage, gpu_usage'))
                /\ pc' = "decide"
    /\ UNCHANGED <<config, undervoltage_cnt, snapshot, voltages, raw_v, cpu_usage,
                   shutdown_calls, os_shutdowns, history, last_good, inputs>>

LoadGpuAndCorrect == LoadGpuAndCorrectFrom(MonProbeInputs)

ShutdownSystem_GuardInverted(lg) ==
    /\ shutdown_calls' = shutdown_calls + 1
    /\ IF debug
       THEN /\ log' = Append(lg, "warning: initiating shutdown")
            /\ os_shutdowns' = os_shutdowns + 1
       ELSE /\ log' = lg
            /\ UNCHANGED os_shutdowns

\* lines 207-210, appended to the records lg of the cycle
ShutdownSystem(lg) ==
    /\ shutdown_calls' = shutdown_calls + 1
    /\ IF ~debug
       THEN /\ log' = Append(lg, "warning: initiating shutdown")
            /\ os_shutdowns' = os_shutdowns + 1
       ELSE /\ log' = lg
            /\ UNCHANGED os_shutdowns

BelowThreshold_Inclusive(v, t) == v <= t

\* line 227
BelowThreshold(v, t) == v < t

CountAfter_NoReset(cnt, v, t) == IF BelowThreshold(v, t) THEN cnt + 1 ELSE cnt

\* lines 227-228 and 233-234: undervoltage_cnt after a valid reading v
CountAfter(cnt, v, t) == IF BelowThreshold(v, t) THEN cnt + 1 ELSE 0

LimitReached_Strict(cnt, limit) == cnt > limit

\* line 230
LimitReached(cnt, limit) == cnt >= limit

AfterShutdown_Sleep == "sleep"

\* line 232: where monitor() goes after shutdown_system()
AfterShutdown == "returned"

MonitoringEnabled_Always(dbg) == TRUE

\* lines 220-226: the threshold is looked at in the else branch of
\* "if self.debug"
MonitoringEnabled(dbg) == ~dbg

\* lines 219-239
Decide ==
    /\ pc = "decide"
    /\ IF raw_v # None /\ corrected_v # None
       THEN IF ~MonitoringEnabled(debug)
            THEN /\ log' = Append(log, "print: reading")
                 /\ pc' = "sleep"
                 /\ UNCHANGED <<undervoltage_cnt, shutdown_calls, os_shutdowns>>
            ELSE IF BelowThreshold(corrected_v[1], threshold)
                 THEN /\ undervoltage_cnt' = CountAfter(undervoltage_cnt, corrected_v[1], threshold)
                      /\ IF LimitReached(undervoltage_cnt', undervoltage_limit)
                         THEN /\ ShutdownSystem(Append(Append(log, "info: reading"),
                                                        "warning: below threshold"))
                              /\ pc' = AfterShutdown
                         ELSE /\ log' = Append(Append(log, "info: reading"),
                                                "warning: below threshold")
                              /\ pc' = "sleep"
                              /\ UNCHANGED <<shutdown_calls, os_shutdowns>>
                 ELSE /\ undervoltage_cnt' = CountAfter(undervoltage_cnt, corrected_v[1], threshold)
                      /\ log' = Append(log, "info: reading")
                      /\ pc' = "sleep"
                      /\ UNCHANGED <<shutdown_calls, os_shutdowns>>
       ELSE /\ log' = Append(log, IF debug THEN "print: no reading" ELSE "error: no reading")
            /\ pc' = "sleep"
            /\ UNCHANGED <<undervoltage_cnt, shutdown_calls, os_shutdowns>>
    /\ history' = Append(history,
                         IF voltages = <<>> THEN "absent"
                         ELSE IF corrected_v[1] < threshold THEN "below" ELSE "ok")
    /\ UNCHANGED <<config, snapshot, voltages, raw_v, corrected_v, cpu_usage, gpu_usage,
                   gpu_tried, last_good, inputs>>

\* line 241, and the next iteration's fresh values
Sleep ==
    /\ pc = "sleep"
    /\ pc' = "read"
    /\ voltages' = <<>>
    /\ raw_v' = None
    /\ corrected_v' = None
    /\ cpu_usage' = 0
    /\ gpu_usage' = 0
    /\ UNCHANGED <<config, undervoltage_cnt, snapshot, gpu_tried, effects, history,
                   last_good, inputs>>

Next == ReadChannels \/ LoadCpu \/ LoadGpuAndCorrect \/ Decide \/ Sleep

Spec == Init /\ [][Next]_vars

\* ------------------------------------------------------------ get_cpu_usage alone
\* Calls of get_cpu_usage, one after another, on any reads of /proc/stat.
StatInputs == StatFailures \cup StatLines(MaxTick)

CallGetCpuUsage ==
    /\ pc = "get_cpu_usage"
    /\ \E stat \in StatInputs :
           /\ stat_in' = stat
           /\ CpuCall(<<>>, stat)
    /\ UNCHANGED <<config, undervoltage_cnt, pc, voltages, raw_v, corrected_v, gpu_usage,
                   gpu_tried, shutdown_calls, os_shutdowns, history, chan_in, probe_in,
                   sigint>>

InitCpu == InitAt("get_cpu_usage", {ProbeEnv(NvFails, TegFails, SysfsFails, JtopFails)})

NextCpu == CallGetCpuUsage

SpecCpu == InitCpu /\ [][NextCpu]_vars

\* ------------------------------------------------------------ get_gpu_usage alone
\* One call of get_gpu_usage in any environment of the four probes.
NvOutcomes ==
    { NvFails, NvRun(FALSE, 1, TRUE, 45), NvRun(FALSE, 0, FALSE, 0),
      NvRun(FALSE, 0, TRUE, 45), NvRun(FALSE, 0, TRUE, 150) }

TegOutcomes == { TegFails, TegRun(FALSE, FALSE, 0), TegRun(FALSE, TRUE, 45) }

LoadFileOutcomes ==
    { NoLoadFile, LoadFile(TRUE, FALSE, FALSE, 0, FALSE),
      LoadFile(TRUE, TRUE, FALSE, 0, FALSE), LoadFile(TRUE, TRUE, TRUE, 45, FALSE),
      LoadFile(TRUE, TRUE, TRUE, 250, TRUE) }

JtopOutcomes ==
    { JtopFails, JtopRun(FALSE, 1, TRUE, 45), JtopRun(FALSE, 0, FALSE, 0),
      JtopRun(FALSE, 0, TRUE, 45), JtopRun(FALSE, 0, TRUE, -5) }

GpuProbeInputs ==
    { ProbeEnv(nv, teg, sysfs, jtop) :
        nv \in NvOutcomes, teg \in TegOutcomes,
        sysfs \in [1..NumLoadPaths -> LoadFileOutcomes], jtop \in JtopOutcomes }

CallGetGpuUsage ==
    /\ pc = "get_gpu_usage"
    /\ GpuCall(<<>>, probe_in)
    /\ pc' = "got_gpu_usage"
    /\ UNCHANGED <<config, undervoltage_cnt, snapshot, voltages, raw_v, corrected_v,
                   cpu_usage, shutdown_calls, os_shutdowns, history, last_good, inputs>>

InitGpu == InitAt("get_gpu_usage", GpuProbeInputs)

NextGpu == CallGetGpuUsage

SpecGpu == InitGpu /\ [][NextGpu]_vars

\* ------------------------------------------------------------ the debouncer
\* the reading of the cycle being decided
ValidReading == pc = "decide" /\ voltages # <<>>
ReadingBelow == ValidReading /\ corrected_v[1] < threshold
ReadingAtLeast == ValidReading /\ corrected_v[1] >= threshold

\* length of the run of "below" readings that ends the valid readings of h
RECURSIVE RunBelow(_)
RunBelow(h) ==
    IF h = <<>> THEN 0
    ELSE IF h[Len(h)] = "absent" THEN RunBelow(SubSeq(h, 1, Len(h) - 1))
    ELSE IF h[Len(h)] = "below" THEN 1 + RunBelow(SubSeq(h, 1, Len(h) - 1))
    ELSE 0

\* number of cycles ending h that each had a valid reading below the threshold
RECURSIVE CyclesBelow(_)
CyclesBelow(h) ==
    IF h = <<>> \/ h[Len(h)] # "below" THEN 0
    ELSE 1 + CyclesBelow(SubSeq(h, 1, Len(h) - 1))

\* C1 (as amended): with debug off, a cycle adds exactly 1 to undervoltage_cnt
\* when its valid reading is below the threshold, sets it to 0 when its valid
\* reading is at or above the threshold, and no other step changes it; with
\* debug on no step changes it.
C1_CountUpdate ==
    [][ /\ (~debug /\ ReadingBelow) => undervoltage_cnt' = undervoltage_cnt + 1
        /\ (~debug /\ ReadingAtLeast) => undervoltage_cnt' = 0
        /\ (debug \/ ~ValidReading) => undervoltage_cnt' = undervoltage_cnt ]_vars

\* C1 witness: a reading exactly at the threshold has reset a count of 2.
C1_Witness ==
    /\ ~debug /\ pc = "sleep" /\ voltages # <<>>
    /\ corrected_v = Some(threshold)
    /\ Len(history) >= 3
    /\ SubSeq(history, Len(history) - 2, Len(history)) = <<"below", "below", "ok">>
    /\ undervoltage_cnt = 0

\* C1 as stated: every cycle of monitor(), debug or not, counts a valid reading
\* below the threshold and resets on one at or above it.
C1_Original ==
    [][ /\ ReadingBelow => undervoltage_cnt' = undervoltage_cnt + 1
        /\ ReadingAtLeast => undervoltage_cnt' = 0
        /\ ~ValidReading => undervoltage_cnt' = undervoltage_cnt ]_vars

\* C2 (as amended): shutdown_system is called at most once, and a step calls it
\* exactly when that step increments undervoltage_cnt to a value >= the limit;
\* for a limit >= 1 that value is the limit itself.
C2_ShutdownOnce ==
    [][ /\ shutdown_calls' \in {shutdown_calls, shutdown_calls + 1}
        /\ shutdown_calls' <= 1
        /\ (shutdown_calls' # shutdown_calls)
             <=> (/\ undervoltage_cnt' = undervoltage_cnt + 1
                  /\ undervoltage_cnt' >= undervoltage_limit)
        /\ (shutdown_calls' # shutdown_calls /\ undervoltage_limit >= 1)
             => undervoltage_cnt' = undervoltage_limit
        /\ os_shutdowns' - os_shutdowns = shutdown_calls' - shutdown_calls ]_vars

\* C2 witness: the third reading below the threshold reached a limit of 3 and
\* the shutdown command ran once.
C2_Witness ==
    /\ undervoltage_limit = 3 /\ undervoltage_cnt = 3
    /\ shutdown_calls = 1 /\ os_shutdowns = 1 /\ pc = "returned"

\* C2 as stated: shutdown is invoked at most once, in exactly the steps in which
\* the count reaches undervoltage_limit.
C2_Original ==
    [][ /\ shutdown_calls' \in {shutdown_calls, shutdown_calls + 1}
        /\ shutdown_calls' <= 1
        /\ (shutdown_calls' # shutdown_calls)
             <=> (/\ undervoltage_cnt' # undervoltage_cnt
                  /\ undervoltage_cnt' = undervoltage_limit) ]_vars

\* C3 (as amended): with debug off and a limit >= 1, after every reading the
\* count is the length of the trailing run of below-threshold valid readings,
\* and shutdown has been signaled exactly if that run has the length of the
\* limit, which no earlier reading's run had.
C3_CountIsRun ==
    (~debug /\ undervoltage_limit >= 1) =>
        /\ undervoltage_cnt = RunBelow(history)
        /\ (shutdown_calls = 1) <=> (RunBelow(history) = undervoltage_limit)
        /\ shutdown_calls \in {0, 1}
        /\ \A k \in 0..(Len(history) - 1) :
               RunBelow(SubSeq(history, 1, k)) < undervoltage_limit

\* C3 witness: the readings 13.9, 13.9, 14.1, 13.9, 13.9, 13.9 against a limit
\* of 3 end with a count of 3 and the shutdown on the sixth.
C3_Witness ==
    /\ ~debug /\ undervoltage_limit = 3
    /\ history = <<"below", "below", "ok", "below", "below", "below">>
    /\ undervoltage_cnt = 3 /\ shutdown_calls = 1

\* C3 as stated: for any limit >= 1 the count after each reading fed to the
\* monitor loop is the trailing run of below-threshold readings.
C3_Original ==
    (undervoltage_limit >= 1) =>
        /\ undervoltage_cnt = RunBelow(history)
        /\ (shutdown_calls = 1) <=> (RunBelow(history) = undervoltage_limit)

\* C4: a cycle in which no channel was read leaves undervoltage_cnt as it was,
\* calls no shutdown and goes on to the sleep.
C4_AbsentKeepsCount ==
    [][ (pc = "decide" /\ voltages = <<>>) =>
            /\ undervoltage_cnt' = undervoltage_cnt
            /\ shutdown_calls' = shutdown_calls
            /\ os_shutdowns' = os_shutdowns
            /\ pc' = "sleep" ]_vars

\* C4 witness: a run of two below-threshold readings interrupted by a cycle
\* without a reading has counted to 2.
C4_Witness ==
    /\ ~debug /\ history = <<"below", "absent", "below">>
    /\ undervoltage_cnt = 2 /\ shutdown_calls = 0

\* C5: once shutdown_system has been called nothing changes any more: no
\* sample, load estimate, counter update, sleep or second shutdown.
C5_NothingAfterShutdown ==
    [][ shutdown_calls = 0 ]_vars

\* C5 witness: the loop has returned after the shutdown with cycles to spare.
C5_Witness ==
    /\ shutdown_calls = 1 /\ os_shutdowns = 1 /\ pc = "returned"
    /\ Len(history) < MaxCycles

\* C6 (as amended): with debug off, as soon as max(1, undervoltage_limit)
\* cycles in a row have each had a valid reading below the threshold, the
\* shutdown command has run and monitor() has returned.
C6_ShutdownWithinLimit ==
    (~debug /\ CyclesBelow(history) >= Max(1, undervoltage_limit)) =>
        (shutdown_calls = 1 /\ os_shutdowns = 1 /\ pc = "returned")

\* C6 witness: two cycles in a row below the threshold met a limit of 2.
C6_Witness ==
    /\ ~debug /\ undervoltage_limit = 2
    /\ history = <<"ok", "below", "below">>
    /\ os_shutdowns = 1 /\ pc = "returned"

\* C6 as stated: in any mode, max(1, undervoltage_limit) cycles in a row below
\* the threshold bring the shutdown and end the loop.
C6_Original ==
    (CyclesBelow(history) >= Max(1, undervoltage_limit)) =>
        (shutdown_calls = 1 /\ pc = "returned")

\* ------------------------------------------------------------ the load estimator
\* C7 as stated: the loads of every cycle with a reading, as passed to
\* correct_voltage, lie in [0, 100].
C7_LoadsInRange ==
    (pc = "decide" /\ voltages # <<>>) =>
        /\ 0 <= cpu_usage /\ cpu_usage <= 100 * PctScale
        /\ 0 <= gpu_usage /\ gpu_usage <= 100

\* the value of the probe called name in the environment of the last call
C8_Outcome(name) ==
    CASE name = "nvidia-smi" -> ProbeNvidiaSmi(probe_in.nv)
      [] name = "tegrastats" -> ProbeTegrastats(probe_in.teg)
      [] name = "sysfs" -> ProbeSysfs(probe_in.sysfs)
      [] name = "jtop" -> ProbeJtop(probe_in.jtop)

\* the fixed order: GPU management utility, statistics sampler, sysfs load
\* files, JSON system monitor
C8_Order == <<"nvidia-smi", "tegrastats", "sysfs", "jtop">>

\* C8: get_gpu_usage runs a prefix of the fixed order; every probe before the
\* last one run failed; the result is the value of the last one run if it
\* succeeded, and otherwise all four were run and the result is 0.
C8_ProbeOrder ==
    (pc = "got_gpu_usage") =>
        LET n == Len(gpu_tried)
        IN /\ n \in 1..Len(C8_Order)
           /\ gpu_tried = SubSeq(C8_Order, 1, n)
           /\ \A i \in 1..(n - 1) : C8_Outcome(C8_Order[i]) = None
           /\ IF C8_Outcome(C8_Order[n]) # None
              THEN gpu_usage = C8_Outcome(C8_Order[n])[1]
              ELSE n = Len(C8_Order) /\ gpu_usage = 0

\* C8 witness: the first two probes failed, a sysfs load file gave 45 and jtop,
\* which would have answered too, was not run.
C8_Witness ==
    /\ pc = "got_gpu_usage"
    /\ gpu_tried = <<"nvidia-smi", "tegrastats", "sysfs">>
    /\ gpu_usage = 45
    /\ ProbeJtop(probe_in.jtop) # None

\* the usage u that the deltas idle_d and total_d (total_d # 0) give:
\* 100 * (1 - idle_d / total_d) clamped to [0, 100], in percent * PctScale
DeltaUsage(idle_d, total_d, u) ==
    IF (total_d - idle_d) * total_d <= 0 THEN u = 0
    ELSE IF idle_d * total_d <= 0 THEN u = 100 * PctScale
    ELSE u * total_d = 100 * PctScale * (total_d - idle_d)

\* C9: a call of get_cpu_usage whose read parses stores the counters read as the
\* snapshot; it returns 0 if it is the first that parses, 0 if total_delta
\* against the stored snapshot is 0, and otherwise 100 * (1 - idle_delta /
\* total_delta) against the stored snapshot, clamped to [0, 100].
C9_CpuUsage ==
    [][ ParseOk(stat_in') =>
          LET idle_time == stat_in'.fields[4]
              total_time == SeqSum(stat_in'.fields)
          IN /\ prev_idle' = Some(idle_time)
             /\ prev_total' = Some(total_time)
             /\ (last_good = None) => cpu_usage' = 0
             /\ (last_good # None) =>
                   /\ prev_idle # None /\ prev_total # None
                   /\ IF total_time - prev_total[1] = 0 THEN cpu_usage' = 0
                      ELSE DeltaUsage(idle_time - prev_idle[1],
                                      total_time - prev_total[1], cpu_usage') ]_vars

\* C9 witness: against a snapshot with idle 0 a later call measured 50 %.
C9_Witness ==
    /\ pc = "get_cpu_usage"
    /\ ParseOk(stat_in)
    /\ cpu_usage = 50 * PctScale
    /\ prev_idle = Some(stat_in.fields[4])

\* C10: a call of get_cpu_usage whose read or parse fails returns 0 and leaves
\* the snapshot as it was, so the snapshot always holds the counters of the last
\* read that parsed, or nothing if none did.
C10_FailureKeepsSnapshot ==
    [][ /\ ~ParseOk(stat_in') =>
             /\ cpu_usage' = 0
             /\ prev_idle' = prev_idle
             /\ prev_total' = prev_total
        /\ IF last_good' = None
           THEN prev_idle' = None /\ prev_total' = None
           ELSE prev_idle' = Some(last_good'[1]) /\ prev_total' = Some(last_good'[2]) ]_vars

\* C10 witness: a failed read came after a read that parsed, and the snapshot
\* of that read is still stored.
C10_Witness ==
    /\ pc = "get_cpu_usage"
    /\ ~ParseOk(stat_in)
    /\ last_good # None
    /\ prev_idle = Some(last_good[1]) /\ prev_total = Some(last_good[2])
    /\ cpu_usage = 0

\* ------------------------------------------------------------ a 10 V pack
\* monitor() started with -t 10.5 on a board whose VDD channels read 9.8 V
\* and 10.2 V.
ScenarioThreshold == 21 * (VScale \div 2)

ScenarioMillivolts == {9800, 10200}

ScenarioChannelInputs ==
    {<<>>}
    \cup { <<Channel(TRUE, "VDD_IN", TRUE, a)>> : a \in ScenarioMillivolts }
    \cup { <<Channel(TRUE, "VDD_IN", TRUE, a), Channel(TRUE, "VDD_CPU_GPU_CV", TRUE, b)>> :
             a \in ScenarioMillivolts, b \in ScenarioMillivolts }

InitScenario ==
    InitWith("read", ScenarioThreshold, <<"hwmon0">>, {<<>>},
             {ProbeEnv(NvFails, TegFails, SysfsFails, JtopFails)})

NextScenario ==
    \/ ReadChannelsFrom(ScenarioChannelInputs)
    \/ LoadCpu
    \/ LoadGpuAndCorrect
    \/ Decide
    \/ Sleep

SpecScenario == InitScenario /\ [][NextScenario]_vars

\* the cycle being decided read 9.8 V and 10.2 V under 50 % CPU and 20 % GPU load
C11_Cycle ==
    /\ pc = "decide"
    /\ voltages = <<9800, 10200>>
    /\ cpu_usage = 50 * PctScale
    /\ gpu_usage = 20

\* C11 (as amended): channels of 9.8 V and 10.2 V under 50 % CPU and 20 % GPU
\* load give a raw mean of 10.0 V and a corrected voltage of 11.0531 V; with
\* the threshold at 10.5 V the cycle is not counted as undervoltage: the count
\* is 0 after it and shutdown_system is not called.
C11_NotCounted ==
    [][ C11_Cycle =>
          /\ raw_v = Some(10 * VScale)
          /\ corrected_v = Some(1105310 * ChanScale * PctScale)
          /\ threshold = 1050000 * ChanScale * PctScale
          /\ undervoltage_cnt' = 0
          /\ shutdown_calls' = shutdown_calls
          /\ pc' = "sleep" ]_vars

\* a counted cycle followed by the 11.0531 V cycle, monitoring on
C11_Witness ==
    /\ ~debug
    /\ pc = "sleep"
    /\ history = <<"below", "ok">>
    /\ voltages = <<9800, 10200>>
    /\ cpu_usage = 50 * PctScale
    /\ gpu_usage = 20
    /\ corrected_v = Some(1105310 * ChanScale * PctScale)
    /\ undervoltage_cnt = 0

\* C11 as stated: the 11.0531 V cycle is counted as undervoltage
C11_Original ==
    [][ (C11_Cycle /\ ~debug) => undervoltage_cnt' = undervoltage_cnt + 1 ]_vars

\* ------------------------------------------------------------ correct_voltage alone
\* Calls of correct_voltage, one after another, on raw means from 0 V to
\* 13.34 V, CPU loads from 0 % to 100 % (12.5 % among them) and the GPU
\* percentages the probes can return.
CorrectRawInputs == { mv * (VScale \div 1000) : mv \in {0, 9800, 10000, 13340} }

CorrectCpuInputs == { 0, PctScale + (PctScale \div 2) * 23, 50 * PctScale, 100 * PctScale }

CorrectGpuInputs == { -5, 0, 20, 100, 150 }

CallCorrectVoltage ==
    /\ pc = "correct_voltage"
    /\ \E raw \in CorrectRawInputs, cpu \in CorrectCpuInputs, gpu \in CorrectGpuInputs :
           /\ raw_v' = Some(raw)
           /\ cpu_usage' = cpu
           /\ gpu_usage' = gpu
           /\ corrected_v' = Some(CorrectVoltage(raw, cpu, gpu))
    /\ UNCHANGED <<config, undervoltage_cnt, snapshot, pc, voltages, gpu_tried, effects,
                   history, last_good, inputs>>

InitCorrect == InitAt("correct_voltage", {ProbeEnv(NvFails, TegFails, SysfsFails, JtopFails)})

NextCorrect == CallCorrectVoltage

SpecCorrect == InitCorrect /\ [][NextCorrect]_vars

SamplerMillivolts == {9800, 10200}

SampleOnce ==
    /\ pc = "read_mean_voltage"
    /\ IF ChannelsRaise(chan_in)
       THEN /\ Fatal(log)
            /\ UNCHANGED <<voltages, raw_v, corrected_v, cpu_usage, gpu_usage>>
       ELSE /\ SampleChannels(chan_in)
            /\ UNCHANGED log
    /\ UNCHANGED <<config, undervoltage_cnt, snapshot, gpu_tried, shutdown_calls,
                   os_shutdowns, history, last_good, inputs>>

InitSampler ==
    InitWith("read_mean_voltage", ThresholdVolts * VScale, <<"hwmon0">>,
             ChannelInputs(SamplerMillivolts),
             {ProbeEnv(NvFails, TegFails, SysfsFails, JtopFails)})

NextSampler == SampleOnce

SpecSampler == InitSampler /\ [][NextSampler]_vars

\* the channels whose label names the rail and whose two reads succeeded
C13_Contributing ==
    { i \in 1..Len(chan_in) :
        /\ chan_in[i].label_ok
        /\ chan_in[i].label \in {"VDD_IN", "VDD_CPU_GPU_CV"}
        /\ chan_in[i].input_ok }

RECURSIVE C13_Sum(_)
C13_Sum(idx) ==
    IF idx = {} THEN 0
    ELSE LET i == CHOOSE j \in idx : TRUE
         IN chan_in[i].mv + C13_Sum(idx \ {i})

\* C13: read_mean_voltage averages exactly the channels whose label contains
\* the rail marker and whose label and input reads both succeeded; a failure
\* on a channel excludes that channel only; the raw voltage is the arithmetic
\* mean of their millivolt values / 1000, and there is no reading exactly
\* when no channel contributes.
C13_MeanOfContributing ==
    pc # "read_mean_voltage" =>
        /\ Len(voltages) = Cardinality(C13_Contributing)
        /\ (raw_v = None) <=> (C13_Contributing = {})
        /\ (pc = "decide") <=> (C13_Contributing = {})
        /\ (pc = "cpu") <=> (C13_Contributing # {})
        /\ raw_v # None =>
               raw_v[1] * Cardinality(C13_Contributing)
                   = C13_Sum(C13_Contributing) * (VScale \div 1000)

\* a pass in which one channel's input read failed and another channel was read
C13_Witness ==
    /\ pc = "cpu"
    /\ Len(chan_in) = 2
    /\ chan_in[1].label_ok /\ chan_in[1].label = "VDD_IN" /\ ~chan_in[1].input_ok
    /\ chan_in[2].label_ok /\ chan_in[2].label = "VDD_IN" /\ chan_in[2].input_ok
    /\ raw_v = Some(chan_in[2].mv * (VScale \div 1000))

\* ------------------------------------------------------------ failures in a cycle
\* C14: whatever fails in a cycle (channel reads, the /proc/stat read or its
\* parsing, GPU probes raising or timing out), no exception leaves monitor():
\* every cycle that starts can take its next step and ends with a corrected
\* reading or a no-reading record, after which the loop goes on; monitor() is
\* left only by the return that follows shutdown_system().
C14_FailuresAbsorbed ==
    /\ pc \in {"read", "cpu", "gpu", "decide", "sleep", "returned"}
    /\ pc = "returned" => shutdown_calls = 1
    /\ pc \in {"cpu", "gpu", "decide", "sleep"} => ENABLED Next
    /\ pc = "sleep" =>
          /\ ENABLED Sleep
          /\ Len(history) >= 1
          /\ IF voltages = <<>>
             THEN /\ history[Len(history)] = "absent"
                  /\ log \in {<<"print: no reading">>, <<"error: no reading">>}
             ELSE /\ corrected_v # None
                  /\ history[Len(history)] \in {"below", "ok"}
                  /\ \E i \in 1..Len(log) : log[i] \in {"print: reading", "info: reading"}

\* a cycle in which the /proc/stat read failed and every GPU probe failed,
\* three of them by an exception, and which ended with a reading
C14_Witness ==
    /\ debug
    /\ pc = "sleep"
    /\ Len(history) = 2
    /\ voltages # <<>>
    /\ gpu_tried = <<"nvidia-smi", "tegrastats", "sysfs", "jtop">>
    /\ log = <<"print: CPU usage error", "print: GPU probe failed",
               "print: GPU probe failed", "print: GPU probe failed",
               "print: GPU fallback", "print: reading">>

\* ------------------------------------------------------------ the program
\* __main__: construction, monitor() and the two except clauses, on a board
\* whose cycles read nothing or one VDD channel and whose load reads all fail.
NoSensors_Never(paths) == FALSE

\* line 30: not self.hwmon_paths
NoSensors(paths) == paths = <<>>

\* lines 258-266: VoltageMonitor(...) with the directories glob finds, then
\* the first lines of monitor() (213-214)
Construct ==
    /\ pc = "main"
    /\ \E paths \in {<<>>, <<"hwmon0">>} :
           /\ hwmon_paths' = paths
           /\ IF NoSensors(paths)
              THEN Fatal(log)
              ELSE /\ pc' = "read"
                   /\ log' = IF debug THEN log ELSE Append(log, "info: starting monitor")
    /\ UNCHANGED <<debug, threshold, undervoltage_limit, undervoltage_cnt, snapshot,
                   voltages, raw_v, corrected_v, cpu_usage, gpu_usage, gpu_tried,
                   shutdown_calls, os_shutdowns, history, last_good, inputs>>

\* lines 267-270: Ctrl-C while monitor() runs
KeyboardInterrupt ==
    /\ pc \in {"read", "cpu", "gpu", "decide", "sleep"}
    /\ sigint' = TRUE
    /\ pc' = "exit(0)"
    /\ log' = IF debug THEN Append(log, "print: stopped by user") ELSE log
    /\ UNCHANGED <<config, undervoltage_cnt, snapshot, voltages, raw_v, corrected_v,
                   cpu_usage, gpu_usage, gpu_tried, shutdown_calls, os_shutdowns,
                   history, last_good, chan_in, stat_in, probe_in>>

MainChannelInputs ==
    {<<>>} \cup { <<Channel(TRUE, "VDD_IN", TRUE, m)>> : m \in MonMillivolts }

MainStatInputs == { StatRead(FALSE, FALSE, <<>>) }

MainProbeInputs == { ProbeEnv(NvFails, TegFails, SysfsFails, JtopFails) }

InitMain == InitWith("main", ThresholdVolts * VScale, <<>>, {<<>>}, MainProbeInputs)

NextMain ==
    \/ Construct
    \/ ReadChannelsFrom(MainChannelInputs)
    \/ LoadCpuFrom(MainStatInputs)
    \/ LoadGpuAndCorrectFrom(MainProbeInputs)
    \/ Decide
    \/ Sleep
    \/ KeyboardInterrupt

SpecMain == InitMain /\ [][NextMain]_vars

\* C15: when discovery finds no hwmon directory, construction raises: no cycle
\* is run, shutdown_system is never called and the program exits with status
\* 1; a keyboard interrupt ends the program with status 0.
C15_StartupAndStop ==
    /\ (pc # "main" /\ hwmon_paths = <<>>) =>
          /\ pc = "exit(1)"
          /\ history = <<>>
          /\ voltages = <<>> /\ raw_v = None /\ gpu_tried = <<>>
          /\ undervoltage_cnt = 0
          /\ shutdown_calls = 0 /\ os_shutdowns = 0
    /\ sigint => pc = "exit(0)"

\* the program after a discovery that found nothing
C15_Witness ==
    /\ hwmon_paths = <<>>
    /\ pc = "exit(1)"
    /\ log \in {<<"print: failed to start">>, <<"error: failed to start">>}

\* ------------------------------------------------------------ debug mode
\* C16 (as amended): in debug mode the monitor loop does not run the debounce
\* decision: the step that ends a cycle prints the reading (or the no-reading
\* line), leaves undervoltage_cnt as it is, does not call shutdown_system and
\* goes on to sleep.
C16_DebugOnlyPrints ==
    [][ (debug /\ pc = "decide") =>
          /\ undervoltage_cnt' = undervoltage_cnt
          /\ shutdown_calls' = shutdown_calls
          /\ os_shutdowns' = os_shutdowns
          /\ log' = Append(log, IF voltages = <<>> THEN "print: no reading"
                                ELSE "print: reading")
          /\ pc' = "sleep" ]_vars

\* two readings below the threshold printed in debug mode with a limit of 1
C16_Witness ==
    /\ debug
    /\ undervoltage_limit = 1
    /\ pc = "sleep"
    /\ history = <<"below", "below">>
    /\ log[Len(log)] = "print: reading"
    /\ undervoltage_cnt = 0
    /\ shutdown_calls = 0

\* C16 as stated: in debug mode a reading below the threshold is counted as in
\* normal mode, and shutdown_system is called, without the OS command, when the
\* count reaches the limit
C16_Original ==
    [][ (debug /\ ReadingBelow) =>
          /\ undervoltage_cnt' = undervoltage_cnt + 1
          /\ (undervoltage_cnt' >= undervoltage_limit) =>
                 /\ shutdown_calls' = shutdown_calls + 1
                 /\ os_shutdowns' = os_shutdowns ]_vars

\* ------------------------------------------------------------ records of a cycle
\* number of records of lg whose kind is in kinds
RECURSIVE C17_Count(_, _)
C17_Count(lg, kinds) ==
    IF lg = <<>> THEN 0
    ELSE (IF Head(lg) \in kinds THEN 1 ELSE 0) + C17_Count(Tail(lg), kinds)

C17_ReadingKinds == {"info: reading", "print: reading"}
C17_NoReadingKinds == {"error: no reading", "print: no reading"}
C17_Diagnostics ==
    {"print: CPU usage error", "print: GPU usage", "print: GPU probe failed",
     "print: GPU fallback"}

\* C17 (as amended): a completed cycle emits exactly one reading record, a
\* success record when it had a reading and a no-reading record when it had
\* none. In normal mode a below-threshold cycle emits a warning record besides
\* it and the cycle that triggers shutdown a second warning record, so such
\* cycles emit two and three log records; an in-range cycle and a no-reading
\* cycle emit one. In debug mode the only other output is the diagnostics
\* printed by the load probes.
C17_RecordsPerCycle ==
    pc \in {"sleep", "returned"} =>
        /\ C17_Count(log, C17_ReadingKinds \cup C17_NoReadingKinds) = 1
        /\ C17_Count(log, IF voltages = <<>> THEN C17_NoReadingKinds
                          ELSE C17_ReadingKinds) = 1
        /\ C17_Count(log, {"warning: below threshold"})
               = IF ~debug /\ history[Len(history)] = "below" THEN 1 ELSE 0
        /\ C17_Count(log, {"warning: initiating shutdown"})
               = IF pc = "returned" THEN 1 ELSE 0
        /\ ~debug => C17_Count(log, C17_Diagnostics) = 0
        /\ Len(log) = C17_Count(log, C17_ReadingKinds \cup C17_NoReadingKinds)
                        + C17_Count(log, {"warning: below threshold",
                                          "warning: initiating shutdown"})
                        + C17_Count(log, C17_Diagnostics)
        /\ (~debug /\ history[Len(history)] # "below") => Len(log) = 1

\* the three records of the cycle that triggered shutdown
C17_Witness ==
    /\ ~debug
    /\ pc = "returned"
    /\ undervoltage_limit = 2
    /\ log = <<"info: reading", "warning: below threshold", "warning: initiating shutdown">>

\* C17 as stated: every cycle emits exactly one log record
C17_Original ==
    (~debug /\ pc \in {"sleep", "returned"}) => Len(log) = 1

\* ------------------------------------------------------------ range of the count
\* the range the claim gives undervoltage_cnt
C18_Range ==
    /\ pc # "returned" => (0 <= undervoltage_cnt /\ undervoltage_cnt < undervoltage_limit)
    /\ pc = "returned" => undervoltage_cnt = undervoltage_limit
    /\ undervoltage_cnt <= undervoltage_limit

\* C18 (as amended): for every configured limit >= 1, while the loop runs
\* 0 <= undervoltage_cnt < undervoltage_limit; the count equals the limit only
\* after the return that follows shutdown_system(), and never exceeds it.
C18_CountBelowLimit == undervoltage_limit >= 1 => C18_Range

\* the loop running one reading short of a limit of 3
C18_Witness ==
    /\ ~debug
    /\ undervoltage_limit = 3
    /\ undervoltage_cnt = 2
    /\ pc = "read"
    /\ history = <<"below", "absent", "below">>

\* C18 as stated: the range holds for every configured integer limit
C18_Original == undervoltage_limit \in 0..MaxLimit => C18_Range

\* ------------------------------------------------------------ debug mode, whole runs
\* C19: with debug on the threshold comparison is never made: undervoltage_cnt
\* stays 0, shutdown_system is never called, /sbin/shutdown is never run, no
\* record of the monitoring branch is written, and monitor() never returns.
C19_DebugNeverShutsDown ==
    debug =>
        /\ undervoltage_cnt = 0
        /\ shutdown_calls = 0
        /\ os_shutdowns = 0
        /\ pc \in {"read", "cpu", "gpu", "decide", "sleep"}
        /\ \A i \in 1..Len(log) :
               log[i] \notin {"info: reading", "warning: below threshold",
                              "warning: initiating shutdown", "error: no reading"}

\* three consecutive readings below the threshold in debug mode, limit 1, and
\* the loop about to start its next cycle
C19_Witness ==
    /\ debug
    /\ undervoltage_limit = 1
    /\ history = <<"below", "below", "below">>
    /\ pc = "read"
    /\ undervoltage_cnt = 0
    /\ shutdown_calls = 0

\* ------------------------------------------------------------ cycles without a reading
\* C20: a cycle without a reading calls neither get_cpu_usage nor
\* get_gpu_usage: it goes from the channel loop straight to the no-reading
\* branch with loads 0.0 and 0.0, no probe run and the CPU snapshot untouched;
\* the snapshot is written by get_cpu_usage alone, which runs only in cycles
\* with a reading, so the CPU percentage of the next cycle with a reading is
\* the delta against the snapshot left by the last such cycle.
C20_NoReadingSkipsLoads ==
    [][ /\ (pc = "read" /\ voltages' = <<>>) =>
              /\ pc' = "decide"
              /\ raw_v' = None /\ corrected_v' = None
              /\ cpu_usage' = 0 /\ gpu_usage' = 0
              /\ gpu_tried' = <<>> /\ log' = <<>>
              /\ UNCHANGED <<prev_idle, prev_total, last_good>>
        /\ pc' \in {"cpu", "gpu"} => voltages' # <<>>
        /\ pc # "cpu" => UNCHANGED <<prev_idle, prev_total, last_good>>
        /\ (pc = "cpu" /\ prev_idle # None /\ <<prev_idle, prev_total>>' # <<prev_idle, prev_total>>)
              => DeltaUsage(prev_idle'[1] - prev_idle[1], prev_total'[1] - prev_total[1],
                            cpu_usage') ]_vars

\* a cycle with a reading, a cycle without one, and a third cycle whose CPU
\* percentage (50 %) is the delta against the first cycle's snapshot
C20_Witness ==
    /\ pc = "decide"
    /\ Len(history) = 2
    /\ history[1] # "absent"
    /\ history[2] = "absent"
    /\ voltages # <<>>
    /\ cpu_usage = 50 * PctScale
    /\ prev_idle = Some(1)
    /\ prev_total = Some(2)

====
